---- MODULE Spec2Model ----
(***************************************************************************)
(* Model of the FPL transfer scoring engine: models.py (Player, Fixture,   *)
(* Transfer) and transfer_analyzer.py (TransferAnalyzer).                  *)
(*                                                                         *)
(* Numbers.  Point values (expected points, gains, net gains, FDR) are     *)
(* Python floats in the source.  Here a point value is an integer count of *)
(* thousandths of a point (Milli per point): 48.0 is 48000, 4.999 is 4999. *)
(* form is carried in tenths (5.0 is 50), as the data source delivers it.  *)
(* Intermediate products are exact rationals <<num, den>>; round(x, 2) is  *)
(* round-half-to-even on the exact value, which is what Python's round     *)
(* does on a value that is exactly representable.  Binary representation   *)
(* error of floats (57.6 - 48.0 = 9.600000000000001) is not modelled; on   *)
(* the inputs below no product is an exact tie, and the values agree with  *)
(* the Python results to 2 decimals.                                       *)
(***************************************************************************)
EXTENDS Integers, Sequences, FiniteSets, TLC

VARIABLES players, fixtures, games_ahead, team_fixtures, call, result

vars == <<players, fixtures, games_ahead, team_fixtures, call, result>>

----------------------------------------------------------------------------
(* config.py *)

DEFAULT_GAMES_AHEAD == 8
TRANSFER_COST == 4
MAX_RETRIES == 3

----------------------------------------------------------------------------
(* Bounds and input domains *)

MaxPool == 2        \* longest player pool handed to the analyzer
MaxFixtures == 3    \* longest fixture list of the fixture-difficulty runs
MaxSquad == 2       \* longest squad handed to recommend_transfers
MaxDashPool == 3    \* longest player pool loaded into the dashboard
MaxPayload == 2     \* longest list in a response of the FPL API

Milli == 1000       \* thousandths of a point per point

None == "None"
NoForm == << >>                 \* form = None
SomeForm(tenths) == <<tenths>>  \* form = tenths / 10

Horizons == {1, 2, DEFAULT_GAMES_AHEAD}       \* games_ahead of the fixture-difficulty runs
PoolHorizons == {1, DEFAULT_GAMES_AHEAD}      \* games_ahead of the transfer runs: slider minimum and default
Difficulties == {1, 2, 5}     \* of the ratings 1..5
Teams == {"ARS", "CHE"}
Positions == {"GKP", "DEF", "MID", "FWD", "Unknown"}
Statuses == {None, "", "a", "i"}
Forms == {NoForm, SomeForm(0), SomeForm(50), SomeForm(60)}
Prices == {50}
Ids == {1, 2}

\* models.py Player: the fields the engine and the dashboard read, and xp,
\* which is declared for the expected points and is None as constructed
NoXp == << >>

Player(id, team, position, price, form, status) ==
    [id |-> id, team |-> team, position |-> position, price |-> price,
     form |-> form, xp |-> NoXp, status |-> status]

\* models.py Fixture: the fields the engine reads
Fixture(team, difficulty) == [team |-> team, difficulty |-> difficulty]

\* every player the fixture-difficulty and expected-points runs are asked about
PlayerUniverse ==
    {Player(1, t, pos, pr, f, s) :
        t \in Teams, pos \in Positions, pr \in Prices, f \in Forms, s \in Statuses}

\* the players pools are made of: every id, as a midfielder of form 5.0 or 6.0
\* or a forward of form 6.0
PoolKinds == {<<"MID", SomeForm(50)>>, <<"MID", SomeForm(60)>>, <<"FWD", SomeForm(60)>>}

PoolPlayers ==
    {Player(i, "ARS", k[1], pr, k[2], "a") : i \in Ids, k \in PoolKinds, pr \in Prices}

\* the players asked to be replaced, alone or as a squad: every id, as a
\* midfielder without form or of form 5.0 (the latter is a pool player too)
OutPlayers ==
    {Player(i, "ARS", "MID", pr, f, "a") :
        i \in Ids, pr \in Prices, f \in {NoForm, SomeForm(50)}}

\* the players of the squad runs: three ids, so that one replacement can be
\* offered for two squad members; midfielders without form, of form 5.0 and of
\* form 6.0, and a forward
SquadPlayers ==
    {Player(1, "ARS", "MID", 50, NoForm, "a"),
     Player(2, "ARS", "MID", 50, SomeForm(50), "a"),
     Player(3, "ARS", "MID", 50, SomeForm(60), "a"),
     Player(2, "ARS", "FWD", 50, SomeForm(60), "a")}

\* prices of the dashboard runs, in tenths of a million: with squads this
\* short the budget of 1000 is used up by two players
DashPrices == {500, 600}

\* the players the dashboard runs load: a midfielder without form with id 1 at
\* the lower price, and midfielders of form 5.0 and 6.0 with id 2 at either price
DashPlayers ==
    {Player(1, "ARS", "MID", 500, NoForm, "a")}
        \cup {Player(2, "ARS", "MID", pr, f, "a") :
                pr \in DashPrices, f \in {SomeForm(50), SomeForm(60)}}

\* get_average_fdr reads only player.team
FdrPlayers == {Player(1, t, "MID", pr, NoForm, None) : t \in Teams, pr \in Prices}

FixtureUniverse == {Fixture(t, d) : t \in Teams, d \in Difficulties}

SeqsUpTo(S, n) == UNION {[1..k -> S] : k \in 0..n}

Range(s) == {s[i] : i \in DOMAIN s}

----------------------------------------------------------------------------
(* Arithmetic *)

RECURSIVE Gcd(_, _)
Gcd(a, b) == IF b = 0 THEN a ELSE Gcd(b, a % b)

\* exact nonnegative rational, reduced
Rat(n, d) == LET g == Gcd(n, d) IN <<n \div g, d \div g>>

RatMul(x, n, d) == Rat(x[1] * n, x[2] * d)

\* nearest integer to n / d, ties to the even neighbour (n >= 0, d > 0)
RoundHalfEven(n, d) ==
    LET q == n \div d
        r == n % d
    IN  IF 2 * r < d THEN q
        ELSE IF 2 * r > d THEN q + 1
        ELSE IF q % 2 = 0 THEN q ELSE q + 1

\* round(x, 2) of the rational x, as a point value
Round2(x) == 10 * RoundHalfEven(100 * x[1], x[2])

RECURSIVE SumDifficulty(_)
SumDifficulty(fs) ==
    IF fs = << >> THEN 0 ELSE Head(fs).difficulty + SumDifficulty(Tail(fs))

\* slip: the horizon is not applied
Take_All(s, n) == s

\* s[:n]
Take(s, n) == SubSeq(s, 1, IF n < Len(s) THEN n ELSE Len(s))

----------------------------------------------------------------------------
(* TransferAnalyzer *)

POSITION_WEIGHTS ==
    [pos \in {"GKP", "DEF", "MID", "FWD"} |->
        CASE pos = "GKP" -> 5 [] pos = "DEF" -> 8 [] pos = "MID" -> 12 [] pos = "FWD" -> 15]

\* slip: a position outside the table weighs nothing
PositionWeight_DefaultZero(position) ==
    IF position \in DOMAIN POSITION_WEIGHTS THEN POSITION_WEIGHTS[position] ELSE 0

\* POSITION_WEIGHTS.get(position, 1.0), in tenths
PositionWeight(position) ==
    IF position \in DOMAIN POSITION_WEIGHTS THEN POSITION_WEIGHTS[position] ELSE 10

\* the loop of _build_team_fixtures over fs, starting from the map tf
RECURSIVE BuildLoop(_, _)
BuildLoop(fs, tf) ==
    IF fs = << >> THEN tf
    ELSE LET f == Head(fs)
             tf1 == IF f.team \in DOMAIN tf THEN tf
                    ELSE [t \in DOMAIN tf \cup {f.team} |->
                            IF t = f.team THEN << >> ELSE tf[t]]
         IN  BuildLoop(Tail(fs), [tf1 EXCEPT ![f.team] = Append(@, f)])

\* the empty dict
EmptyMap == [t \in {} |-> << >>]

_build_team_fixtures(fs) == BuildLoop(fs, EmptyMap)

get_average_fdr(tf, n, player) ==
    IF player.team \notin DOMAIN tf THEN 3 * Milli
    ELSE LET window == Take(tf[player.team], n)
         IN  IF window = << >> THEN 3 * Milli
             ELSE Round2(Rat(SumDifficulty(window), Len(window)))

\* truthiness of player.form and player.status
FormTruthy(form) == form # NoForm /\ form[1] # 0
StatusTruthy(status) == status # None /\ status # ""

\* slip: no availability penalty
calculate_expected_points_NoPenalty(tf, n, player) ==
    IF ~FormTruthy(player.form) THEN 0
    ELSE LET xp0 == Rat(player.form[1] * n, 10)
             fdr == get_average_fdr(tf, n, player)
             xp1 == RatMul(xp0, 6 * Milli - fdr, 3 * Milli)
             xp2 == RatMul(xp1, PositionWeight(player.position), 10)
         IN  Round2(xp2)

calculate_expected_points(tf, n, player) ==
    IF ~FormTruthy(player.form) THEN 0
    ELSE LET xp0 == Rat(player.form[1] * n, 10)
             fdr == get_average_fdr(tf, n, player)
             xp1 == RatMul(xp0, 6 * Milli - fdr, 3 * Milli)
             xp2 == RatMul(xp1, PositionWeight(player.position), 10)
             xp3 == IF StatusTruthy(player.status) /\ player.status # "a"
                    THEN RatMul(xp2, 1, 2) ELSE xp2
         IN  Round2(xp3)

get_player_analysis(tf, n, player) ==
    [form |-> IF FormTruthy(player.form) THEN player.form[1] * 100 ELSE 0,
     fdr |-> get_average_fdr(tf, n, player),
     position_weight |-> PositionWeight(player.position),
     xp |-> calculate_expected_points(tf, n, player)]

----------------------------------------------------------------------------
(* Transfer *)

\* Transfer(...) as the dataclass constructs it: net gain 0.0, recommendation ""
Transfer(player_out, player_in, n, gain, cost) ==
    [player_out |-> player_out, player_in |-> player_in, games_ahead |-> n,
     expected_points_gain |-> gain, transfer_cost |-> cost,
     net_point_gain |-> 0, recommendation |-> ""]

\* slip: the GOOD band excludes its lower bound
Recommendation_StrictGood(net) ==
    IF net > 5 * Milli THEN "GOOD"
    ELSE IF net >= 0 THEN "NEUTRAL"
    ELSE "BAD"

Recommendation(net) ==
    IF net >= 5 * Milli THEN "GOOD"
    ELSE IF net >= 0 THEN "NEUTRAL"
    ELSE "BAD"

\* the Transfer after calculate_net_gain()
calculate_net_gain(t) ==
    LET net == t.expected_points_gain - t.transfer_cost * Milli
    IN  [t EXCEPT !.net_point_gain = net, !.recommendation = Recommendation(net)]

----------------------------------------------------------------------------
(* Sorting: list.sort(key = net_point_gain, reverse = True) is stable *)

\* slip: an element goes in front of its equals
RECURSIVE InsertDesc_BeforeEquals(_, _)
InsertDesc_BeforeEquals(sorted, t) ==
    IF sorted = << >> THEN <<t>>
    ELSE IF Head(sorted).net_point_gain > t.net_point_gain
         THEN <<Head(sorted)>> \o InsertDesc_BeforeEquals(Tail(sorted), t)
         ELSE <<t>> \o sorted

RECURSIVE InsertDesc(_, _)
InsertDesc(sorted, t) ==
    IF sorted = << >> THEN <<t>>
    ELSE IF Head(sorted).net_point_gain >= t.net_point_gain
         THEN <<Head(sorted)>> \o InsertDesc(Tail(sorted), t)
         ELSE <<t>> \o sorted

RECURSIVE SortLoop(_, _)
SortLoop(ts, sorted) ==
    IF ts = << >> THEN sorted ELSE SortLoop(Tail(ts), InsertDesc(sorted, Head(ts)))

\* slip: the list is left in pool order
SortByNetGainDesc_Unsorted(ts) == ts

SortByNetGainDesc(ts) == SortLoop(ts, << >>)

----------------------------------------------------------------------------
(* find_smart_transfers, recommend_transfers *)

\* slip: None is not replaced by the outgoing player's position
EffectivePosition_NoDefault(current_player, position) == position

EffectivePosition(current_player, position) ==
    IF position = None THEN current_player.position ELSE position

\* slip: the outgoing player's id is not excluded
IsCandidate_NoIdCheck(p, current_player, position) == p.position = position

IsCandidate(p, current_player, position) ==
    p.position = position /\ p.id # current_player.id

\* slip: candidates of every position
Candidates_AnyPosition(pool, current_player, position) ==
    SelectSeq(pool, LAMBDA p : p.id # current_player.id)

Candidates(pool, current_player, position) ==
    SelectSeq(pool, LAMBDA p : IsCandidate(p, current_player, position))

\* slip: the gain is the candidate's expected points, not the difference
MakeTransfer_CandidateXpOnly(tf, n, current_player, current_xp, candidate) ==
    calculate_net_gain(
        Transfer(current_player, candidate, n,
                 calculate_expected_points(tf, n, candidate),
                 TRANSFER_COST))

\* the loop body: one Transfer per candidate, net gain and recommendation derived
MakeTransfer(tf, n, current_player, current_xp, candidate) ==
    calculate_net_gain(
        Transfer(current_player, candidate, n,
                 calculate_expected_points(tf, n, candidate) - current_xp,
                 TRANSFER_COST))

OnlyGood(ts) == SelectSeq(ts, LAMBDA t : t.recommendation = "GOOD")

find_smart_transfers(pool, tf, n, current_player, position) ==
    LET pos == EffectivePosition(current_player, position)
        candidates == Candidates(pool, current_player, pos)
        current_xp == calculate_expected_points(tf, n, current_player)
        transfers == [i \in 1..Len(candidates) |->
                        MakeTransfer(tf, n, current_player, current_xp, candidates[i])]
    IN  OnlyGood(SortByNetGainDesc(transfers))

RECURSIVE ExtendAll(_, _, _, _)
ExtendAll(pool, tf, n, squad) ==
    IF squad = << >> THEN << >>
    ELSE find_smart_transfers(pool, tf, n, Head(squad), None)
            \o ExtendAll(pool, tf, n, Tail(squad))

\* slip: players of the squad are not offered as replacements
recommend_transfers_NotFromSquad(pool, tf, n, current_squad) ==
    SelectSeq(SortByNetGainDesc(ExtendAll(pool, tf, n, current_squad)),
              LAMBDA t : \A i \in DOMAIN current_squad : t.player_in.id # current_squad[i].id)

\* slip: the merged list is not sorted again
recommend_transfers_NoResort(pool, tf, n, current_squad) ==
    ExtendAll(pool, tf, n, current_squad)

recommend_transfers(pool, tf, n, current_squad) ==
    SortByNetGainDesc(ExtendAll(pool, tf, n, current_squad))

----------------------------------------------------------------------------
(* api_client.py: FPLAPIClient *)

\* JSON objects are functions from keys to values, JSON arrays are sequences;
\* the value _get returns is << >> for None and <<json>> for a response body
NoData == << >>
SomeData(json) == <<json>>

\* not x, for a JSON object or array x
JsonFalsy(json) == DOMAIN json = {}

\* FPLAPIClient._get_position
_get_position(position_id) ==
    CASE position_id = 1 -> "GKP"
      [] position_id = 2 -> "DEF"
      [] position_id = 3 -> "MID"
      [] position_id = 4 -> "FWD"
      [] OTHER -> "Unknown"

\* entries of "elements" in /bootstrap-static/
RawElements ==
    {[id |-> i, team |-> "ARS", element_type |-> et, now_cost |-> 50,
      form |-> 50, status |-> "a"] : i \in Ids, et \in {3, 5}}

\* entries of /fixtures/
RawFixtures ==
    {[event |-> 1, team_h_name |-> t, team_a_name |-> "LIV",
      team_h_difficulty |-> 2, status |-> st] :
        t \in Teams, st \in {"scheduled", "finished"}}

EmptyObject == [k \in {} |-> << >>]

\* response bodies by endpoint
Payloads(op) ==
    CASE op = "get_all_players" ->
            {EmptyObject} \cup {[elements |-> es] : es \in SeqsUpTo(RawElements, MaxPayload)}
      [] op = "get_fixtures" -> SeqsUpTo(RawFixtures, MaxPayload)
      [] op = "get_player_history" -> {EmptyObject, [history |-> << >>]}

ApiOps == {"get_all_players", "get_fixtures", "get_player_history"}

\* the body of get_all_players after _get returned a truthy body
ParsePlayers(json) ==
    LET es == IF "elements" \in DOMAIN json THEN json.elements ELSE << >>
    IN  [i \in 1..Len(es) |->
            Player(es[i].id, es[i].team, _get_position(es[i].element_type),
                   es[i].now_cost, SomeForm(es[i].form), es[i].status)]

\* the body of get_fixtures after _get returned a truthy body
ParseFixtures(json) ==
    LET scheduled == SelectSeq(json, LAMBDA f : f.status = "scheduled")
    IN  [i \in 1..Len(scheduled) |->
            Fixture(scheduled[i].team_h_name, scheduled[i].team_h_difficulty)]

\* what the public method returns, given what _get returned
ApiResult(op, data) ==
    CASE op = "get_all_players" ->
            IF data = NoData \/ JsonFalsy(data[1]) THEN << >> ELSE ParsePlayers(data[1])
      [] op = "get_fixtures" ->
            IF data = NoData \/ JsonFalsy(data[1]) THEN << >> ELSE ParseFixtures(data[1])
      [] op = "get_player_history" -> data

\* a public method is called and enters the loop of _get: attempt = 0
ApiCall(op) ==
    [op |-> op, pc |-> "get", attempt |-> 0, outcomes |-> << >>, data |-> NoData]

\* the request of this attempt raises a RequestException
OnRequestError(c) ==
    IF c.attempt = MAX_RETRIES - 1
    THEN [c EXCEPT !.pc = "done", !.outcomes = Append(@, "error"), !.data = NoData]
    ELSE [c EXCEPT !.attempt = @ + 1, !.outcomes = Append(@, "error")]

\* slip: the body of a good response is not returned, the loop goes on
OnSuccess_NoReturn(c, json) ==
    [OnRequestError(c) EXCEPT !.outcomes = Append(c.outcomes, "ok")]

\* the request of this attempt succeeds: return response.json()
OnSuccess(c, json) ==
    [c EXCEPT !.pc = "done", !.outcomes = Append(@, "ok"), !.data = SomeData(json)]

----------------------------------------------------------------------------
(* streamlit_app.py: the budget filter of the dashboard *)

\* the FPL budget of 100m, in tenths of a million
FplBudget == 1000

RECURSIVE SumPrices(_)
SumPrices(squad) ==
    IF squad = << >> THEN 0 ELSE Head(squad).price + SumPrices(Tail(squad))

\* budget = 1000 - total_squad_value
Budget(current_squad) == FplBudget - SumPrices(current_squad)

\* slip: the price of the outgoing player is not credited
Affordable_IgnoresOut(t, player_out, budget) == t.player_in.price <= budget

\* (t.player_in.price - player.price) <= budget
Affordable(t, player_out, budget) ==
    (t.player_in.price - player_out.price) <= budget

\* [t for t in transfers if ...]
AffordableTransfers(transfers, player_out, budget) ==
    SelectSeq(transfers, LAMBDA t : Affordable(t, player_out, budget))

\* the loop of the Squad Transfer Plan: all_transfers.extend([(player, t) ...])
RECURSIVE PlanLoop(_, _, _, _, _)
PlanLoop(pool, tf, n, squad, budget) ==
    IF squad = << >> THEN << >>
    ELSE LET player == Head(squad)
             affordable == AffordableTransfers(
                              find_smart_transfers(pool, tf, n, player, None), player, budget)
         IN  [i \in 1..Len(affordable) |-> <<player, affordable[i]>>]
                \o PlanLoop(pool, tf, n, Tail(squad), budget)

----------------------------------------------------------------------------
(* State machine *)

\* no call in progress: the analyzer is constructed, or the last call's result
\* has been consumed by the caller
Idle == [op |-> "idle"]

\* TransferAnalyzer.__init__
Construct(ps, fs, n) ==
    /\ players = ps
    /\ fixtures = fs
    /\ games_ahead = n
    /\ team_fixtures = _build_team_fixtures(fs)
    /\ call = Idle
    /\ result = None

\* the transfer engine over pools of PoolPlayers, with no fixtures or one
Init ==
    \E ps \in SeqsUpTo(PoolPlayers, MaxPool),
       fs \in {<< >>, <<Fixture("ARS", 2)>>},
       n \in PoolHorizons :
        Construct(ps, fs, n)

\* the fixture-difficulty index and expected-points model over fixture lists
InitPoints ==
    \E fs \in SeqsUpTo(FixtureUniverse, MaxFixtures), n \in Horizons :
        Construct(<< >>, fs, n)

\* slip: the expected points are stored in the xp field of the pool's players
Frame_StoresXp ==
    /\ players' = [i \in DOMAIN players |->
                    [players[i] EXCEPT !.xp =
                        <<calculate_expected_points(team_fixtures, games_ahead, players[i])>>]]
    /\ UNCHANGED <<fixtures, games_ahead, team_fixtures>>

\* no method of the analyzer assigns to self or to a Player or Fixture
Frame == UNCHANGED <<players, fixtures, games_ahead, team_fixtures>>

GetAverageFdr(p) ==
    /\ call = Idle
    /\ call' = [op |-> "get_average_fdr", player |-> p]
    /\ result' = get_average_fdr(team_fixtures, games_ahead, p)
    /\ Frame

CalculateExpectedPoints(p) ==
    /\ call = Idle
    /\ call' = [op |-> "calculate_expected_points", player |-> p]
    /\ result' = calculate_expected_points(team_fixtures, games_ahead, p)
    /\ Frame

GetPlayerAnalysis(p) ==
    /\ call = Idle
    /\ call' = [op |-> "get_player_analysis", player |-> p]
    /\ result' = get_player_analysis(team_fixtures, games_ahead, p)
    /\ Frame

\* expected gains a caller hands to Transfer(...), in thousandths of a point
GainSamples == {-1, 0, 3999, 4000, 4001, 8999, 9000, 9001, 9600}
CostSamples == {0, TRANSFER_COST}

CalculateNetGain(out, in, gain, cost) ==
    /\ call = Idle
    /\ call' = [op |-> "calculate_net_gain",
                transfer |-> Transfer(out, in, games_ahead, gain, cost)]
    /\ result' = calculate_net_gain(Transfer(out, in, games_ahead, gain, cost))
    /\ Frame

FindSmartTransfers(p, position) ==
    /\ call = Idle
    /\ call' = [op |-> "find_smart_transfers", player |-> p, position |-> position]
    /\ result' = find_smart_transfers(players, team_fixtures, games_ahead, p, position)
    /\ Frame

RecommendTransfers(squad) ==
    /\ call = Idle
    /\ call' = [op |-> "recommend_transfers", squad |-> squad]
    /\ result' = recommend_transfers(players, team_fixtures, games_ahead, squad)
    /\ Frame

\* the caller takes the returned value; the analyzer is ready for the next call
\* (the engine is single-threaded and synchronous: calls do not overlap)
Return ==
    /\ call # Idle
    /\ call' = Idle
    /\ result' = None
    /\ Frame

SamplePlayer == Player(1, "ARS", "MID", 50, SomeForm(50), "a")

Next ==
    \/ \E p \in FdrPlayers : GetAverageFdr(p)
    \/ \E p \in PoolPlayers \cup OutPlayers : CalculateExpectedPoints(p)
    \/ \E p \in FdrPlayers : GetPlayerAnalysis(p)
    \/ \E g \in GainSamples, c \in CostSamples :
            CalculateNetGain(SamplePlayer, SamplePlayer, g, c)
    \/ \E p \in OutPlayers, position \in {None, "MID", "FWD"} :
            FindSmartTransfers(p, position)
    \/ \E squad \in SeqsUpTo(OutPlayers, MaxSquad) : RecommendTransfers(squad)
    \/ Return

NextPoints ==
    \/ \E p \in FdrPlayers : GetAverageFdr(p)
    \/ \E p \in PlayerUniverse : CalculateExpectedPoints(p)
    \/ \E p \in FdrPlayers : GetPlayerAnalysis(p)
    \/ \E g \in GainSamples, c \in CostSamples :
            CalculateNetGain(SamplePlayer, SamplePlayer, g, c)
    \/ Return

\* the dashboard after load_data: the pool is not empty (main returns otherwise),
\* the slider is at its default
\* the squads the sidebar can select from the loaded pool
DashSquads == SeqsUpTo(Range(players), MaxSquad) \ {<< >>}

\* tab 1: the transfers shown for one squad member
QuickAnalysis(current_squad, selected_player, position_filter) ==
    /\ call = Idle
    /\ call' = [op |-> "quick_analysis", squad |-> current_squad,
                player |-> selected_player, position_filter |-> position_filter]
    /\ result' = AffordableTransfers(
                    find_smart_transfers(players, team_fixtures, games_ahead, selected_player,
                        IF position_filter THEN selected_player.position ELSE None),
                    selected_player, Budget(current_squad))
    /\ Frame

\* tab 2: the (player, transfer) pairs shown for the whole squad
SquadTransferPlan(current_squad) ==
    /\ call = Idle
    /\ call' = [op |-> "squad_transfer_plan", squad |-> current_squad]
    /\ result' = PlanLoop(players, team_fixtures, games_ahead, current_squad,
                          Budget(current_squad))
    /\ Frame

InitDash ==
    \E ps \in SeqsUpTo(DashPlayers, MaxDashPool) :
        /\ ps # << >>
        /\ Construct(ps, << >>, DEFAULT_GAMES_AHEAD)

NextDash ==
    \/ \E p \in DashPlayers, position \in {None, "MID", "FWD"} :
            FindSmartTransfers(p, position)
    \/ \E squad \in DashSquads, position_filter \in BOOLEAN :
            \E selected \in Range(squad) : QuickAnalysis(squad, selected, position_filter)
    \/ \E squad \in DashSquads : SquadTransferPlan(squad)
    \/ Return

\* the client before the dashboard has data: no analyzer input yet
InitApi == Construct(<< >>, << >>, DEFAULT_GAMES_AHEAD)

InGet == call.op \in ApiOps /\ call.pc = "get"

ApiStart(op) ==
    /\ call = Idle
    /\ call' = ApiCall(op)
    /\ result' = None
    /\ Frame

AttemptSucceeds ==
    /\ InGet
    /\ \E json \in Payloads(call.op) : call' = OnSuccess(call, json)
    /\ result' = IF call'.pc = "done" THEN ApiResult(call.op, call'.data) ELSE None
    /\ Frame

AttemptFails ==
    /\ InGet
    /\ call' = OnRequestError(call)
    /\ result' = IF call'.pc = "done" THEN ApiResult(call.op, call'.data) ELSE None
    /\ Frame

\* one pass through the loop body of _get
Attempt == AttemptFails \/ AttemptSucceeds

ApiReturn ==
    /\ call.op \in ApiOps
    /\ call.pc = "done"
    /\ Return

NextApi ==
    \/ \E op \in ApiOps : ApiStart(op)
    \/ AttemptSucceeds
    \/ AttemptFails
    \/ ApiReturn

\* a pool and a squad drawn from the same players
InitSquad ==
    \E ps \in SeqsUpTo(SquadPlayers, MaxPool) :
        Construct(ps, << >>, DEFAULT_GAMES_AHEAD)

NextSquad ==
    \/ \E squad \in SeqsUpTo(SquadPlayers, MaxSquad) : RecommendTransfers(squad)
    \/ Return

Spec == Init /\ [][Next]_vars
SpecSquad == InitSquad /\ [][NextSquad]_vars

\* every request ends, with a response or a RequestException (timeout = API_TIMEOUT)
SpecApi == InitApi /\ [][NextApi]_vars /\ WF_vars(Attempt)

SpecDash == InitDash /\ [][NextDash]_vars

SpecPoints == InitPoints /\ [][NextPoints]_vars

----------------------------------------------------------------------------
(* Properties *)

IsFind == call.op = "find_smart_transfers"
IsRecommend == call.op = "recommend_transfers"
IsNetGain == call.op = "calculate_net_gain"
IsXp == call.op = "calculate_expected_points"
IsFdr == call.op = "get_average_fdr"

AllGood(ts) == \A i \in DOMAIN ts : ts[i].recommendation = "GOOD"

NonIncreasing(ts) ==
    \A i, j \in DOMAIN ts : i < j => ts[i].net_point_gain >= ts[j].net_point_gain

\* C1: the list find_smart_transfers returns holds only GOOD Transfers and
\* its net_point_gain never increases from one element to the next.
C1_GoodAndSorted == IsFind => AllGood(result) /\ NonIncreasing(result)

\* two GOOD candidates came back in the reverse of their pool order
C1_Witness ==
    /\ IsFind
    /\ Len(result) = 2
    /\ Len(players) >= 2
    /\ result[1].player_in = players[2]
    /\ result[2].player_in = players[1]
    /\ result[1].net_point_gain > result[2].net_point_gain

\* C2: no Transfer find_smart_transfers returns brings in a player whose id
\* is the outgoing player's id.
C2_NeverSameId == IsFind => \A i \in DOMAIN result : result[i].player_in.id # call.player.id

\* the pool holds another entry with the outgoing id that would rate GOOD, and
\* only the entry with a different id came back
C2_Witness ==
    /\ IsFind
    /\ Len(result) = 1
    /\ \E i \in DOMAIN players :
        /\ players[i].id = call.player.id
        /\ players[i] # call.player
        /\ players[i].position = call.player.position
        /\ MakeTransfer(team_fixtures, games_ahead, call.player,
                        calculate_expected_points(team_fixtures, games_ahead, call.player),
                        players[i]).recommendation = "GOOD"

NetIsGainMinusCost(t) ==
    t.net_point_gain = t.expected_points_gain - t.transfer_cost * Milli

EngineTransfer(t) ==
    /\ t.transfer_cost = 4
    /\ t.expected_points_gain =
            calculate_expected_points(team_fixtures, games_ahead, t.player_in)
          - calculate_expected_points(team_fixtures, games_ahead, t.player_out)
    /\ t.net_point_gain = t.expected_points_gain - 4 * Milli

\* C3: every Transfer has net_point_gain = expected_points_gain - transfer_cost;
\* the Transfers find_smart_transfers and recommend_transfers return have
\* transfer_cost 4, expected_points_gain = xp(player_in) - xp(player_out) and
\* net_point_gain = expected_points_gain - 4.
C3_NetGain ==
    /\ IsNetGain => NetIsGainMinusCost(result)
    /\ (IsFind \/ IsRecommend) =>
            \A i \in DOMAIN result : NetIsGainMinusCost(result[i]) /\ EngineTransfer(result[i])

\* form 5.0 out, form 6.0 in, MID, 8 games, neutral fixtures: gain 9.6, net 5.6
C3_Witness ==
    /\ IsFind
    /\ Len(result) >= 1
    /\ result[1].expected_points_gain = 9600
    /\ result[1].net_point_gain = 5600

\* C4: calculate_net_gain rates by net gain alone: GOOD when net >= 5, NEUTRAL
\* when 0 <= net < 5, BAD when net < 0; net 5 is GOOD, just below 5 is
\* NEUTRAL, 0 is NEUTRAL, just below 0 is BAD.
C4_Recommendation ==
    IsNetGain =>
        LET net == result.net_point_gain
            rec == result.recommendation
        IN  /\ rec \in {"GOOD", "NEUTRAL", "BAD"}
            /\ rec = "GOOD" <=> net >= 5000
            /\ rec = "NEUTRAL" <=> (0 <= net /\ net < 5000)
            /\ rec = "BAD" <=> net < 0
            /\ net = 5000 => rec = "GOOD"
            /\ net = 4999 => rec = "NEUTRAL"
            /\ net = 0 => rec = "NEUTRAL"
            /\ net = -1 => rec = "BAD"

\* net = 5.0 exactly, after the cost of 4 is taken off a gain of 9.0
C4_Witness ==
    /\ IsNetGain
    /\ call.transfer.transfer_cost = 4
    /\ result.net_point_gain = 5000
    /\ result.recommendation = "GOOD"

RECURSIVE SumOfFindLengths(_)
SumOfFindLengths(squad) ==
    IF squad = << >> THEN 0
    ELSE Len(find_smart_transfers(players, team_fixtures, games_ahead, Head(squad), None))
            + SumOfFindLengths(Tail(squad))

RECURSIVE FindsOf(_)
FindsOf(squad) ==
    IF squad = << >> THEN << >>
    ELSE find_smart_transfers(players, team_fixtures, games_ahead, Head(squad), None)
            \o FindsOf(Tail(squad))

Count(ts, t) == Cardinality({i \in DOMAIN ts : ts[i] = t})

SameTransfers(a, b) == \A t \in Range(a) \cup Range(b) : Count(a, t) = Count(b, t)

\* C5: recommend_transfers(squad) returns as many Transfers as the
\* find_smart_transfers calls of the squad members return together, exactly
\* those Transfers (duplicates kept), in non-increasing order of net_point_gain.
C5_Merge ==
    IsRecommend =>
        /\ Len(result) = SumOfFindLengths(call.squad)
        /\ SameTransfers(result, FindsOf(call.squad))
        /\ NonIncreasing(result)

\* both squad members contribute, and the best Transfer replaces the second
C5_Witness ==
    /\ IsRecommend
    /\ Len(call.squad) = 2
    /\ Len(result) >= 3
    /\ result[1].player_out = call.squad[2]
    /\ result[Len(result)].player_out = call.squad[1]
    /\ result[1].net_point_gain > result[Len(result)].net_point_gain

\* the fixtures of a team, in the order of the input fixture list
FixturesOf(team) == SelectSeq(fixtures, LAMBDA f : f.team = team)

Min(a, b) == IF a < b THEN a ELSE b

\* C6: get_average_fdr returns 3.0 when the fixture list has no fixture of the
\* player's team, and otherwise the mean, rounded to 2 decimals, of the
\* difficulty of the first min(N, count) fixtures of that team in input order.
C6_AverageFdr ==
    IsFdr =>
        LET mine == FixturesOf(call.player.team)
            k == Min(games_ahead, Len(mine))
        IN  IF mine = << >> THEN result = 3000
            ELSE result = Round2(Rat(SumDifficulty(SubSeq(mine, 1, k)), k))

\* horizon 1, another team's fixture comes first in the list, and the team's
\* own two fixtures differ in difficulty: the result is the first of them
C6_Witness ==
    /\ IsFdr
    /\ Len(FixturesOf(call.player.team)) > games_ahead
    /\ fixtures[1].team # call.player.team
    /\ games_ahead = 1
    /\ result = 1000 * fixtures[2].difficulty
    /\ fixtures[2].difficulty # fixtures[3].difficulty

ClaimedWeight(position) ==
    CASE position = "GKP" -> 5
      [] position = "DEF" -> 8
      [] position = "MID" -> 12
      [] position = "FWD" -> 15
      [] OTHER -> 10

\* availability factor as a fraction <<num, den>>
ClaimedAvailability(status) ==
    IF status # None /\ status # "" /\ status # "a" THEN <<1, 2>> ELSE <<1, 1>>

ClaimedXp(player) ==
    IF player.form = NoForm THEN 0
    ELSE LET fdrCenti == get_average_fdr(team_fixtures, games_ahead, player) \div 10
             av == ClaimedAvailability(player.status)
         IN  Round2(Rat(player.form[1] * games_ahead * (600 - fdrCenti)
                            * ClaimedWeight(player.position) * av[1],
                        10 * 300 * 10 * av[2]))

ScenarioContext(player) ==
    /\ player.position = "MID"
    /\ player.status = "a"
    /\ games_ahead = 8
    /\ get_average_fdr(team_fixtures, games_ahead, player) = 3000

\* C7: calculate_expected_points is 0.0 without form, and otherwise
\* form x N x ((6 - avgFDR) / 3) x positionWeight x availabilityFactor rounded
\* to 2 decimals; form 5.0, MID, "a", avgFDR 3.0, N = 8 gives 48.0, form 6.0
\* gives 57.6, and the gain 9.6 has net 5.6 and rates GOOD.
C7_ExpectedPoints ==
    /\ IsXp =>
        /\ result = ClaimedXp(call.player)
        /\ call.player.form = NoForm => result = 0
        /\ (ScenarioContext(call.player) /\ call.player.form = SomeForm(50)) => result = 48000
        /\ (ScenarioContext(call.player) /\ call.player.form = SomeForm(60)) => result = 57600
    /\ (IsNetGain /\ call.transfer.expected_points_gain = 57600 - 48000
                 /\ call.transfer.transfer_cost = 4) =>
            (result.net_point_gain = 5600 /\ result.recommendation = "GOOD")

C7_Witness ==
    /\ IsXp
    /\ ScenarioContext(call.player)
    /\ call.player.form = SomeForm(60)
    /\ fixtures # << >>
    /\ result = 57600

Unavailable(player) == player.status # None /\ player.status # "" /\ player.status # "a"

XpIfAvailable(player) ==
    calculate_expected_points(team_fixtures, games_ahead, [player EXCEPT !.status = "a"])

\* C8 as stated: the unavailable player's expected points are exactly half of
\* the expected points of the same player with status "a".
C8_ExactlyHalf ==
    (IsXp /\ Unavailable(call.player)) => 2 * result = XpIfAvailable(call.player)

\* C8: the unavailable player's expected points are within 0.005 of half of
\* the expected points of the same player with status "a" (the halving comes
\* before the rounding to 2 decimals).
C8_HalfWithinRounding ==
    (IsXp /\ Unavailable(call.player)) =>
        /\ 2 * result - XpIfAvailable(call.player) <= 10
        /\ XpIfAvailable(call.player) - 2 * result <= 10

\* an unavailable player whose expected points are not exactly the half
C8_Witness ==
    /\ IsXp
    /\ call.player.status = "i"
    /\ result > 0
    /\ 2 * result # XpIfAvailable(call.player)

\* C9 as stated: with any position argument, every returned Transfer brings in
\* a player of the outgoing player's position.
C9_SamePositionAlways ==
    IsFind => \A i \in DOMAIN result :
                result[i].player_in.position = result[i].player_out.position

\* C9: every returned Transfer brings in a player of the position filtered on:
\* the position argument, or the outgoing player's position when it is None;
\* so the two positions are equal when the argument is None or is the outgoing
\* player's own position.
C9_FilterPosition ==
    IsFind => \A i \in DOMAIN result :
        /\ call.position # None => result[i].player_in.position = call.position
        /\ call.position \in {None, call.player.position} =>
                result[i].player_in.position = result[i].player_out.position

\* defaulted filter, and a same-position Transfer came back although the pool
\* also holds a player of the other position
C9_Witness ==
    /\ IsFind
    /\ call.position = None
    /\ Len(result) >= 1
    /\ \E i \in DOMAIN players : players[i].position # call.player.position

\* C10: find_smart_transfers with position None returns what it returns with
\* the outgoing player's own position, and no call returns candidates of more
\* than one position.
C10_DefaultIsOwnPosition ==
    IsFind =>
        /\ call.position = None =>
                result = find_smart_transfers(players, team_fixtures, games_ahead,
                                              call.player, call.player.position)
        /\ \A i, j \in DOMAIN result :
                result[i].player_in.position = result[j].player_in.position

\* position None, one Transfer back, and the pool holds a player of another
\* position that rates GOOD when asked for explicitly
C10_Witness ==
    /\ IsFind
    /\ call.position = None
    /\ Len(result) = 1
    /\ \E pos \in {"MID", "FWD"} :
        /\ pos # call.player.position
        /\ find_smart_transfers(players, team_fixtures, games_ahead, call.player, pos) # << >>

\* the net gain of the Transfer find_smart_transfers builds for the pool entry p
NetOf(p) ==
    MakeTransfer(team_fixtures, games_ahead, call.player,
                 calculate_expected_points(team_fixtures, games_ahead, call.player),
                 p).net_point_gain

\* the pool entries, in pool order, that are candidates of the call and whose
\* Transfer has net gain v
PoolGroup(v) ==
    SelectSeq(players, LAMBDA p :
        /\ p.position = (IF call.position = None THEN call.player.position ELSE call.position)
        /\ p.id # call.player.id
        /\ NetOf(p) = v)

\* the players brought in by the returned Transfers of net gain v, in result order
ResultGroup(v) ==
    LET ts == SelectSeq(result, LAMBDA t : t.net_point_gain = v)
    IN  [i \in 1..Len(ts) |-> ts[i].player_in]

\* C11: returned Transfers of equal net_point_gain appear in the order in which
\* their player_in entries appear in the pool.
C11_TiesInPoolOrder ==
    IsFind => \A i \in DOMAIN result :
                ResultGroup(result[i].net_point_gain) = PoolGroup(result[i].net_point_gain)

\* the best candidate stands between two different pool entries that tie: it
\* comes back first, and the two that tie follow in pool order
C11_Witness ==
    /\ IsFind
    /\ Len(result) = 3
    /\ Len(players) = 3
    /\ result[1].net_point_gain > result[2].net_point_gain
    /\ result[2].net_point_gain = result[3].net_point_gain
    /\ result[2].player_in # result[3].player_in
    /\ result[1].player_in = players[2]
    /\ result[2].player_in = players[1]
    /\ result[3].player_in = players[3]

\* the Players a returned Transfer refers to are the caller's, field for field
RefersToInputs(t, outs) ==
    /\ t.player_out \in outs
    /\ t.player_in \in Range(players)
    /\ t.player_in.xp = NoXp
    /\ t.player_out.xp = NoXp

\* C12: no engine call changes the analyzer's player pool, fixture list,
\* team-fixture map or horizon, nor any field of a Player it was given (xp
\* included); the returned Transfers refer to the unchanged input Players.
C12_NoSideEffects ==
    [][ /\ players' = players
        /\ fixtures' = fixtures
        /\ team_fixtures' = team_fixtures
        /\ games_ahead' = games_ahead
        /\ call'.op = "find_smart_transfers" =>
                \A i \in DOMAIN result' : RefersToInputs(result'[i], {call'.player})
        /\ call'.op = "recommend_transfers" =>
                \A i \in DOMAIN result' : RefersToInputs(result'[i], Range(call'.squad))
      ]_vars

\* recommend_transfers has returned Transfers for a squad of two, and the pool
\* is as it was constructed
C12_Witness ==
    /\ IsRecommend
    /\ Len(call.squad) = 2
    /\ Len(result) >= 2
    /\ Len(players) = 2
    /\ \A i \in DOMAIN players : players[i].xp = NoXp
    /\ team_fixtures = _build_team_fixtures(fixtures)

ApiDone == call.op \in ApiOps /\ call.pc = "done"

AllErrors(outcomes) == \A i \in DOMAIN outcomes : outcomes[i] = "error"

IsQuick == call.op = "quick_analysis"
IsPlan == call.op = "squad_transfer_plan"

\* the transfers the dashboard shows with p as the outgoing player
ShownFor(p) ==
    IF IsQuick THEN result
    ELSE LET pairs == SelectSeq(result, LAMBDA e : e[1] = p)
         IN  [i \in 1..Len(pairs) |-> pairs[i][2]]

\* what find_smart_transfers returns for p in the tab that is open
FoundFor(p) ==
    find_smart_transfers(players, team_fixtures, games_ahead, p,
        IF IsQuick /\ call.position_filter THEN p.position ELSE None)

\* the squad members the open tab analyses
AnalysedMembers == IF IsQuick THEN {call.player} ELSE Range(call.squad)

\* how often the open tab analyses p
TimesAnalysed(p) ==
    IF IsQuick THEN 1 ELSE Cardinality({i \in DOMAIN call.squad : call.squad[i] = p})

RECURSIVE Repeat(_, _)
Repeat(s, k) == IF k = 0 THEN << >> ELSE s \o Repeat(s, k - 1)

RECURSIVE IsSubsequence(_, _)
IsSubsequence(a, b) ==
    IF a = << >> THEN TRUE
    ELSE IF b = << >> THEN FALSE
    ELSE IF Head(a) = Head(b) THEN IsSubsequence(Tail(a), Tail(b))
    ELSE IsSubsequence(a, Tail(b))

\* C14: in Quick Analysis and in the Squad Transfer Plan, with budget = 1000
\* minus the sum of the prices of the selected squad, every transfer shown has
\* player_in.price - player_out.price <= budget, every transfer returned by
\* find_smart_transfers with that inequality is shown, and the shown transfers
\* of a squad member are in the order find_smart_transfers returned them.
C14_BudgetFilter ==
    (IsQuick \/ IsPlan) =>
        LET budget == 1000 - SumPrices(call.squad)
        IN  /\ IsPlan => \A i \in DOMAIN result : result[i][1] \in Range(call.squad)
            /\ \A p \in AnalysedMembers :
                /\ \A i \in DOMAIN ShownFor(p) :
                      /\ ShownFor(p)[i].player_in.price - p.price <= budget
                      /\ ShownFor(p)[i] \in Range(FoundFor(p))
                /\ \A i \in DOMAIN FoundFor(p) :
                      FoundFor(p)[i].player_in.price - p.price <= budget
                        => Count(ShownFor(p), FoundFor(p)[i])
                              = TimesAnalysed(p) * Count(FoundFor(p), FoundFor(p)[i])
                /\ IsSubsequence(ShownFor(p), Repeat(FoundFor(p), TimesAnalysed(p)))

\* the plan of a squad of two that uses up the budget: the replacement at the
\* same price is shown, the dearer one that find_smart_transfers returned is not
C14_Witness ==
    /\ IsPlan
    /\ Len(call.squad) = 2
    /\ SumPrices(call.squad) = 1000
    /\ result # << >>
    /\ \E i \in DOMAIN result : result[i][2].player_in.price = result[i][1].price
    /\ \E t \in Range(FoundFor(call.squad[1])) :
            /\ t.player_in.price > call.squad[1].price
            /\ t \notin Range(ShownFor(call.squad[1]))

\* the Transfer find_smart_transfers builds for current_player and candidate
TransferFor(current_player, candidate) ==
    MakeTransfer(team_fixtures, games_ahead, current_player,
                 calculate_expected_points(team_fixtures, games_ahead, current_player),
                 candidate)

\* how many entries of ts replace player_out by player_in
CountPair(ts, player_out, player_in) ==
    Cardinality({i \in DOMAIN ts :
                    ts[i].player_out = player_out /\ ts[i].player_in = player_in})

\* C15: for every squad member, recommend_transfers leaves out of the
\* candidates only the pool entries with the member's own id: every pool entry
\* of the member's position with another id whose Transfer rates GOOD is
\* returned for that member, once per occurrence, whether or not it is in the
\* squad or is returned for another member too.
C15_OnlySelfExcluded ==
    IsRecommend =>
        /\ \A i \in DOMAIN result :
              /\ result[i].player_out \in Range(call.squad)
              /\ result[i].player_in.id # result[i].player_out.id
        /\ \A m \in Range(call.squad), p \in Range(players) :
              (/\ p.position = m.position
               /\ p.id # m.id
               /\ TransferFor(m, p).recommendation = "GOOD")
                => CountPair(result, m, p)
                      = Cardinality({i \in DOMAIN call.squad : call.squad[i] = m})
                          * Cardinality({i \in DOMAIN players : players[i] = p})

\* a squad member is offered for the other member, and one replacement is
\* offered for both members
C15_Witness ==
    /\ IsRecommend
    /\ Len(call.squad) = 2
    /\ call.squad[1].id # call.squad[2].id
    /\ call.squad[1].position = call.squad[2].position
    /\ \E i \in DOMAIN result :
          /\ result[i].player_out = call.squad[1]
          /\ result[i].player_in = call.squad[2]
    /\ \E i, j \in DOMAIN result :
          /\ result[i].player_in = result[j].player_in
          /\ result[i].player_out = call.squad[1]
          /\ result[j].player_out = call.squad[2]

====
